---- MODULE Spec2Model ----
(***************************************************************************)
(* Model of src/index.js: Conway's Game of Life rendered in a browser      *)
(* grid and stepped by a setInterval timer.                                *)
(*                                                                         *)
(* Every handler of the script (the two onkeyup handlers, the interval     *)
(* callback, handleStateProgression, clearUniverse, randomize) is one      *)
(* action; the JavaScript event loop runs each of them to completion.      *)
(***************************************************************************)
EXTENDS Integers, Sequences, FiniteSets, TLC

(***************************************************************************)
(* Grid dimensions.  index.js fixes ROWS = 30 and COLS = 50; the model     *)
(* keeps the shape that matters (ROWS < COLS, COLS >= ROWS + 2, both >= 5) *)
(* on a grid small enough to explore.                                      *)
(***************************************************************************)
ROWS == 5
COLS == 7

MAX_ALIVE_NEIGHBORS == 3
MIN_ALIVE_NEIGHBORS == 2

LIGHTBLUE == "rgb(122, 215, 240)"
WHITE == "rgb(255, 255, 255)"
\* backgroundColor of a freshly created element whose style was never set
UNSET == ""

(***************************************************************************)
(* Bounds of the exploration.                                              *)
(***************************************************************************)
\* ticks explored before the generation counter is capped
MaxGen == 2
\* number of initializeUniverse calls (startup + randomize) explored
MaxLayers == 2
\* number of setInterval registrations explored
MaxStarts == 2

VARIABLES
    generation,             \* state.generation
    isProgressing,          \* state.isProgressing
    internalN,              \* state.internalN (handle of the last setInterval)
    chanceToBeLivingCell,   \* state.chanceToBeLivingCell (a JS number)
    progressionSpeed,       \* state.progressionSpeed (a JS number)
    currentCellState,       \* state.currentCellState: id -> 0/1
    nextCellState,          \* state.nextCellState
    cells,                  \* DOM: elements of class 'cell' in document order,
                            \* one layer per initializeUniverse call
    display,                \* generationCountDisplay.innerText: <<>> until the script
                            \* writes it, then <<text>>
    button,                 \* innerText of the start button, likewise
    timers,                 \* the browser's active interval timers
    nextHandle              \* next handle setInterval will return

vars == <<generation, isProgressing, internalN, chanceToBeLivingCell,
          progressionSpeed, currentCellState, nextCellState, cells,
          display, button, timers, nextHandle>>

(***************************************************************************)
(* JavaScript numbers that the inputs can produce: NaN, or a rational      *)
(* num/den in lowest terms with den > 0.                                   *)
(***************************************************************************)
NaN == [nan |-> TRUE, num |-> 0, den |-> 1]
Num(n) == [nan |-> FALSE, num |-> n, den |-> 1]

RECURSIVE GCD(_, _)
GCD(a, b) == IF b = 0 THEN a ELSE GCD(b, a % b)

Abs(n) == IF n < 0 THEN -n ELSE n

Rat(n, d) ==
    LET g == GCD(Abs(n), d)
    IN  [nan |-> FALSE, num |-> n \div g, den |-> d \div g]

IsInteger(x) == ~x.nan /\ x.den = 1

\* ToBoolean of a number: 0, -0 and NaN are falsy
Truthy(x) == ~x.nan /\ x.num # 0

(***************************************************************************)
(* Text of an input field: a sequence of one-character strings.            *)
(***************************************************************************)
DigitValue ==
    "0" :> 0 @@ "1" :> 1 @@ "2" :> 2 @@ "3" :> 3 @@ "4" :> 4 @@
    "5" :> 5 @@ "6" :> 6 @@ "7" :> 7 @@ "8" :> 8 @@ "9" :> 9

HexValue ==
    DigitValue @@
    "a" :> 10 @@ "b" :> 11 @@ "c" :> 12 @@ "d" :> 13 @@ "e" :> 14 @@ "f" :> 15

IsDigit(ch) == ch \in DOMAIN DigitValue

AllDigits(s) == \A k \in 1..Len(s) : IsDigit(s[k])

\* /[0-9]+/.test(value): the pattern is not anchored, so it matches as soon
\* as the text contains one digit anywhere
RegexTest(value) == \E k \in 1..Len(value) : IsDigit(value[k])

RECURSIVE Pow10(_)
Pow10(k) == IF k = 0 THEN 1 ELSE 10 * Pow10(k - 1)

\* value of a digit string in the given base, most significant digit first
RECURSIVE DigitsValue(_, _, _)
DigitsValue(s, base, acc) ==
    IF s = <<>> THEN acc
    ELSE DigitsValue(Tail(s), base, acc * base + HexValue[Head(s)])

RECURSIVE TrimLeft(_)
TrimLeft(s) == IF s # <<>> /\ Head(s) = " " THEN TrimLeft(Tail(s)) ELSE s

RECURSIVE TrimRight(_)
TrimRight(s) ==
    IF s # <<>> /\ s[Len(s)] = " " THEN TrimRight(SubSeq(s, 1, Len(s) - 1)) ELSE s

\* an unsigned decimal literal: Digits, Digits. , Digits.Digits or .Digits
UnsignedDecimal(s) ==
    LET dots == {k \in 1..Len(s) : s[k] = "."}
    IN  IF dots = {}
        THEN IF s # <<>> /\ AllDigits(s) THEN Num(DigitsValue(s, 10, 0)) ELSE NaN
        ELSE IF Cardinality(dots) > 1 THEN NaN
        ELSE LET d == CHOOSE k \in dots : TRUE
                 int == SubSeq(s, 1, d - 1)
                 frac == SubSeq(s, d + 1, Len(s))
             IN  IF AllDigits(int) /\ AllDigits(frac) /\ Len(int) + Len(frac) > 0
                 THEN Rat(DigitsValue(int \o frac, 10, 0), Pow10(Len(frac)))
                 ELSE NaN

\* Number(value) for a string (ECMAScript StringToNumber), for texts without
\* exponent, binary, octal or Infinity forms: surrounding blanks are dropped,
\* the empty text is 0, 0x... is a hexadecimal integer, a decimal literal may
\* carry one sign, and anything else is NaN
ToNumber(value) ==
    LET s == TrimRight(TrimLeft(value))
    IN  IF s = <<>> THEN Num(0)
        ELSE IF Len(s) > 2 /\ s[1] = "0" /\ s[2] = "x"
                /\ \A k \in 3..Len(s) : s[k] \in DOMAIN HexValue
             THEN Num(DigitsValue(SubSeq(s, 3, Len(s)), 16, 0))
        ELSE IF s[1] = "-"
             THEN LET u == UnsignedDecimal(Tail(s))
                  IN  IF u.nan THEN NaN ELSE Rat(-u.num, u.den)
        ELSE IF s[1] = "+" THEN UnsignedDecimal(Tail(s))
        ELSE UnsignedDecimal(s)

\* texts a keyup event can report (e.target.value)
Texts ==
    { <<>>, <<"0">>, <<"1", "a">>, <<"x", "5">>, <<"1", "0", "0">> }

(***************************************************************************)
(* The grid.  A cell id `${i}_${j}` is modelled as the pair <<i, j>>; the  *)
(* string form is injective on pairs of naturals, so nothing is lost.      *)
(***************************************************************************)
CellId(i, j) == <<i, j>>

\* ids in the order initializeUniverse creates the elements (i outer, j inner)
GridIds == [k \in 1..(ROWS * COLS) |-> CellId((k - 1) \div COLS, (k - 1) % COLS)]

GridIdSet == (0..(ROWS - 1)) \X (0..(COLS - 1))

EmptyObject == [x \in {} |-> 0]

\* obj[key] = value on a plain object
SetProp(obj, key, value) == (key :> value) @@ obj

\* the nine offsets of countNeighbors' two loops, i outer and j inner
Offsets == [k \in 1..9 |-> <<((k - 1) \div 3) - 1, ((k - 1) % 3) - 1>>]

RECURSIVE countNeighborsLoop(_, _, _, _, _)
countNeighborsLoop(cur, numericRow, numericCol, k, sum) ==
    IF k > 9 THEN sum
    ELSE LET i == Offsets[k][1]
             j == Offsets[k][2]
             col == (numericRow + i + COLS) % COLS
             row == (numericCol + j + ROWS) % ROWS
             cellId == CellId(col, row)
         IN  countNeighborsLoop(cur, numericRow, numericCol, k + 1,
                 sum + (IF cellId \in DOMAIN cur THEN cur[cellId] ELSE 0))

countNeighbors(cur, numericRow, numericCol) ==
    countNeighborsLoop(cur, numericRow, numericCol, 1, 0)
        - cur[CellId(numericRow, numericCol)]

\* variant of nextValue: a live cell with exactly MAX_ALIVE_NEIGHBORS dies too
nextValueDiesAtMax(cellState, sumOfNeighbors) ==
    IF cellState = 1 /\ (sumOfNeighbors >= MAX_ALIVE_NEIGHBORS \/ sumOfNeighbors < MIN_ALIVE_NEIGHBORS)
    THEN 0
    ELSE IF cellState = 0 /\ sumOfNeighbors = MAX_ALIVE_NEIGHBORS
    THEN 1
    ELSE cellState

\* the value evolve stores in nextCellState for one cell
nextValue(cellState, sumOfNeighbors) ==
    IF cellState = 1 /\ (sumOfNeighbors > MAX_ALIVE_NEIGHBORS \/ sumOfNeighbors < MIN_ALIVE_NEIGHBORS)
    THEN 0
    ELSE IF cellState = 0 /\ sumOfNeighbors = MAX_ALIVE_NEIGHBORS
    THEN 1
    ELSE cellState

\* keys of an object in insertion order: every object the script builds is
\* filled in document order of the elements, so the order is GridIds
Keys(obj) == SelectSeq(GridIds, LAMBDA id : id \in DOMAIN obj)

\* variant of evolvePass: a neighbour already visited is counted with its next
\* value
RECURSIVE evolvePassInPlace(_, _, _)
evolvePassInPlace(cur, next, keys) ==
    IF keys = <<>> THEN next
    ELSE LET cellId == Head(keys)
             sumOfNeighbors == countNeighbors(next @@ cur, cellId[1], cellId[2])
             written == SetProp(next, cellId, nextValue(cur[cellId], sumOfNeighbors))
         IN  IF cellId \in DOMAIN written
             THEN evolvePassInPlace(cur, written, Tail(keys))
             ELSE written

\* the for..of loop of evolve over Object.entries(state.currentCellState)
RECURSIVE evolvePass(_, _, _)
evolvePass(cur, next, keys) ==
    IF keys = <<>> THEN next
    ELSE LET cellId == Head(keys)
             sumOfNeighbors == countNeighbors(cur, cellId[1], cellId[2])
         IN  evolvePass(cur,
                        SetProp(next, cellId, nextValue(cur[cellId], sumOfNeighbors)),
                        Tail(keys))

\* the render loop of evolve: every element of class 'cell' is painted from
\* the entry of its id
paint(layers, cur) ==
    [l \in 1..Len(layers) |->
        [id \in DOMAIN layers[l] |-> IF cur[id] # 0 THEN LIGHTBLUE ELSE WHITE]]

(***************************************************************************)
(* The handlers as functions of the script's state s, a record of the      *)
(* variables they read or write.                                           *)
(***************************************************************************)

\* variant of evolve: the swap of line 96 is left out
evolveWithoutSwap(s) ==
    LET next == evolvePass(s.currentCellState, s.nextCellState, Keys(s.currentCellState))
    IN  [s EXCEPT !.nextCellState = EmptyObject,
                  !.cells = paint(s.cells, s.currentCellState)]

\* evolve(): the pass over the cells, the swap and the render loop
evolve(s) ==
    LET next == evolvePass(s.currentCellState, s.nextCellState, Keys(s.currentCellState))
    IN  [s EXCEPT !.currentCellState = next,
                  !.nextCellState = EmptyObject,
                  !.cells = paint(s.cells, next)]

\* variant of tick: the callback counts a generation twice
tickCountsTwice(s) ==
    evolve([s EXCEPT !.generation = s.generation + 2,
                     !.display = <<s.generation + 2>>])

\* the interval callback registered by handleStateProgression
tick(s) ==
    evolve([s EXCEPT !.generation = s.generation + 1,
                     !.display = <<s.generation + 1>>])

\* the ids of the elements of class 'cell'
ElementIds(layers) == UNION {DOMAIN layers[l] : l \in 1..Len(layers)}

\* variant of clearUniverse: the generation counter is left alone
clearUniverseKeepsGeneration(s) ==
    LET ids == ElementIds(s.cells)
    IN  [s EXCEPT !.cells = [l \in 1..Len(s.cells) |-> [id \in DOMAIN s.cells[l] |-> WHITE]],
                  !.currentCellState =
                        [id \in (DOMAIN s.currentCellState) \cup ids |->
                            IF id \in ids THEN 0 ELSE s.currentCellState[id]]]

clearUniverse(s) ==
    LET ids == ElementIds(s.cells)
    IN  [s EXCEPT !.generation = 0,
                  !.cells = [l \in 1..Len(s.cells) |-> [id \in DOMAIN s.cells[l] |-> WHITE]],
                  !.currentCellState =
                        [id \in (DOMAIN s.currentCellState) \cup ids |->
                            IF id \in ids THEN 0 ELSE s.currentCellState[id]]]

(***************************************************************************)
(* Math.random() * (100 - 1) + 1 is a real x with 1 <= x < 100, and a cell *)
(* is lit when x < chanceToBeLivingCell.  The draws of one call are        *)
(* represented by the set of ids whose comparison came out true.           *)
(***************************************************************************)
\* some x in [1, 100) has x < p
CanBeLess(p) == ~p.nan /\ p.num > p.den

\* some x in [1, 100) has not (x < p)
CanBeNotLess(p) == p.nan \/ p.num < 100 * p.den

DrawPossible(p, less) ==
    /\ less \subseteq GridIdSet
    /\ less # {} => CanBeLess(p)
    /\ less # GridIdSet => CanBeNotLess(p)

\* the 3 x 3 block in the top left corner
Block == (0..2) \X (0..2)

BlinkerH == {CellId(1, 0), CellId(1, 1), CellId(1, 2)}

\* the draw outcomes explored
Draws ==
    { {}, GridIdSet, BlinkerH, Block,
      {CellId(1, COLS - 1)}, {CellId(ROWS - 1, COLS - 1)} }

\* variant of initializeUniverse: the outer loop runs while i <= ROWS
initializeUniverseExtraRow(s, less) ==
    LET ids == (0..ROWS) \X (0..(COLS - 1))
        backgroundColor ==
            [id \in ids |->
                IF Truthy(s.chanceToBeLivingCell) /\ id \in less THEN LIGHTBLUE ELSE UNSET]
    IN  [s EXCEPT !.cells = Append(s.cells, backgroundColor),
                  !.currentCellState =
                        [id \in (DOMAIN s.currentCellState) \cup ids |->
                            IF id \in ids
                            THEN IF backgroundColor[id] = LIGHTBLUE THEN 1 ELSE 0
                            ELSE s.currentCellState[id]]]

initializeUniverse(s, less) ==
    LET backgroundColor ==
            [id \in GridIdSet |->
                IF Truthy(s.chanceToBeLivingCell) /\ id \in less THEN LIGHTBLUE ELSE UNSET]
    IN  [s EXCEPT !.cells = Append(s.cells, backgroundColor),
                  !.currentCellState =
                        [id \in (DOMAIN s.currentCellState) \cup GridIdSet |->
                            IF id \in GridIdSet
                            THEN IF backgroundColor[id] = LIGHTBLUE THEN 1 ELSE 0
                            ELSE s.currentCellState[id]]]

\* variant of randomize: the universe is not cleared first
randomizeWithoutClear(s, less) == initializeUniverse(s, less)

randomize(s, less) == initializeUniverse(clearUniverse(s), less)

\* setInterval / clearInterval of the browser
setInterval(s, delay) ==
    [s EXCEPT !.timers = s.timers \cup {[id |-> s.nextHandle, delay |-> delay]},
              !.nextHandle = s.nextHandle + 1]

clearInterval(s, handle) ==
    [s EXCEPT !.timers = {t \in s.timers : t.id # handle}]

\* variant of handleStateProgression: the stop branch leaves the timer registered
handleStateProgressionKeepsTimer(s) ==
    LET toggled == [s EXCEPT !.isProgressing = ~s.isProgressing]
    IN  IF toggled.isProgressing
        THEN [setInterval(toggled, toggled.progressionSpeed)
                EXCEPT !.internalN = toggled.nextHandle, !.button = <<"Stop">>]
        ELSE [toggled EXCEPT !.button = <<"Start">>]

handleStateProgression(s) ==
    LET toggled == [s EXCEPT !.isProgressing = ~s.isProgressing]
    IN  IF toggled.isProgressing
        THEN [setInterval(toggled, toggled.progressionSpeed)
                EXCEPT !.internalN = toggled.nextHandle, !.button = <<"Stop">>]
        ELSE [clearInterval(toggled, toggled.internalN) EXCEPT !.button = <<"Start">>]

\* variant of speedProgressionInputOnkeyup: an accepted value also becomes the
\* period of the running timer
speedProgressionInputOnkeyupRetimes(s, value) ==
    IF RegexTest(value)
    THEN [s EXCEPT !.progressionSpeed = ToNumber(value),
                   !.timers = {[id |-> t.id, delay |-> ToNumber(value)] : t \in s.timers}]
    ELSE s

speedProgressionInputOnkeyup(s, value) ==
    IF RegexTest(value) THEN [s EXCEPT !.progressionSpeed = ToNumber(value)] ELSE s

\* variant of percentCellIsAliveInputOnkeyup: an accepted value also clears the
\* universe
percentCellIsAliveInputOnkeyupClears(s, value) ==
    IF RegexTest(value)
    THEN clearUniverse([s EXCEPT !.chanceToBeLivingCell = ToNumber(value)])
    ELSE s

percentCellIsAliveInputOnkeyup(s, value) ==
    IF RegexTest(value) THEN [s EXCEPT !.chanceToBeLivingCell = ToNumber(value)] ELSE s

(***************************************************************************)
(* The state machine.                                                      *)
(***************************************************************************)
S == [generation |-> generation, isProgressing |-> isProgressing,
      internalN |-> internalN, chanceToBeLivingCell |-> chanceToBeLivingCell,
      progressionSpeed |-> progressionSpeed, currentCellState |-> currentCellState,
      nextCellState |-> nextCellState, cells |-> cells, display |-> display,
      button |-> button, timers |-> timers, nextHandle |-> nextHandle]

Becomes(s) ==
    /\ generation' = s.generation
    /\ isProgressing' = s.isProgressing
    /\ internalN' = s.internalN
    /\ chanceToBeLivingCell' = s.chanceToBeLivingCell
    /\ progressionSpeed' = s.progressionSpeed
    /\ currentCellState' = s.currentCellState
    /\ nextCellState' = s.nextCellState
    /\ cells' = s.cells
    /\ display' = s.display
    /\ button' = s.button
    /\ timers' = s.timers
    /\ nextHandle' = s.nextHandle

\* values of the two input fields when the script is loaded
InitialSpeeds == {Num(100)}
InitialChances == {Num(50)}

\* the state object literal, before initializeUniverse() runs on load
Loaded(speed, chance) ==
    [generation |-> 0, isProgressing |-> FALSE, internalN |-> 0,
     chanceToBeLivingCell |-> chance, progressionSpeed |-> speed,
     currentCellState |-> EmptyObject, nextCellState |-> EmptyObject,
     cells |-> <<>>, display |-> <<>>, button |-> <<>>,
     timers |-> {}, nextHandle |-> 1]

Init ==
    \E speed \in InitialSpeeds, chance \in InitialChances, less \in Draws :
        /\ DrawPossible(chance, less)
        /\ LET s == initializeUniverse(Loaded(speed, chance), less)
           IN  /\ generation = s.generation
               /\ isProgressing = s.isProgressing
               /\ internalN = s.internalN
               /\ chanceToBeLivingCell = s.chanceToBeLivingCell
               /\ progressionSpeed = s.progressionSpeed
               /\ currentCellState = s.currentCellState
               /\ nextCellState = s.nextCellState
               /\ cells = s.cells
               /\ display = s.display
               /\ button = s.button
               /\ timers = s.timers
               /\ nextHandle = s.nextHandle

\* an active interval timer fires
Tick ==
    /\ timers # {}
    /\ generation < MaxGen
    /\ \E t \in {tick(S)} : Becomes(t)

\* click on the start/stop button
StartStop ==
    /\ isProgressing \/ nextHandle <= MaxStarts
    /\ \E t \in {handleStateProgression(S)} : Becomes(t)

\* click on the clear button
Clear == \E t \in {clearUniverse(S)} : Becomes(t)

\* click on the randomize button
Randomize ==
    /\ Len(cells) < MaxLayers
    /\ \E less \in Draws :
          /\ DrawPossible(chanceToBeLivingCell, less)
          /\ \E t \in {randomize(S, less)} : Becomes(t)

SpeedKeyup == \E value \in Texts : \E t \in {speedProgressionInputOnkeyup(S, value)} : Becomes(t)

PercentKeyup == \E value \in Texts : \E t \in {percentCellIsAliveInputOnkeyup(S, value)} : Becomes(t)

Next ==
    \/ Tick
    \/ StartStop
    \/ Clear
    \/ Randomize
    \/ SpeedKeyup
    \/ PercentKeyup

Spec == Init /\ [][Next]_vars

(***************************************************************************)
(* Reference definitions used to state the properties.                     *)
(***************************************************************************)
AsGrid(live) == [id \in GridIdSet |-> IF id \in live THEN 1 ELSE 0]

\* the vertical line through the middle of BlinkerH
BlinkerV == {CellId(0, 1), CellId(1, 1), CellId(2, 1)}

AllDead(obj) == \A id \in DOMAIN obj : obj[id] = 0

\* the eight toroidally adjacent cells of (r, c)
TorusNeighbors(r, c) ==
    {CellId((r + dr + ROWS) % ROWS, (c + dc + COLS) % COLS) :
        dr \in -1..1, dc \in -1..1} \ {CellId(r, c)}

LiveTorusNeighbors(cur, r, c) ==
    Cardinality({n \in TorusNeighbors(r, c) : cur[n] = 1})

\* the classic B3/S23 generation on the ROWS x COLS torus
B3S23(cur) ==
    [id \in GridIdSet |->
        LET n == LiveTorusNeighbors(cur, id[1], id[2])
        IN  IF cur[id] = 1
            THEN IF n = 2 \/ n = 3 THEN 1 ELSE 0
            ELSE IF n = 3 THEN 1 ELSE 0]

\* a step in which the interval callback ran: nothing else increments generation
TickStep == generation' = generation + 1

\* a step in which initializeUniverse ran: nothing else appends elements
RandomizeStep == Len(cells') = Len(cells) + 1

\* the toroidal neighbours of (r, c) that lie across an edge of the grid
WrapNeighbors(r, c) ==
    {n \in TorusNeighbors(r, c) : n[1] - r \notin -1..1 \/ n[2] - c \notin -1..1}

DigitsOnly(value) == value # <<>> /\ AllDigits(value)

(***************************************************************************)
(* C1: one evolve step gives every cell its B3/S23 value over the eight    *)
(* toroidally adjacent cells.                                              *)
(***************************************************************************)
C1_EvolveIsToroidalLife ==
    [][TickStep => currentCellState' = B3S23(currentCellState)]_vars

(***************************************************************************)
(* C2: countNeighbors of every in-range coordinate is between 0 and 8.     *)
(***************************************************************************)
C2_CountInRange ==
    \A id \in GridIdSet : countNeighbors(currentCellState, id[1], id[2]) \in 0..8

(***************************************************************************)
(* C3: wrap-around adjacency: the count of a cell includes every live cell *)
(* toroidally adjacent to it across an edge, in particular the count of    *)
(* (0,0) includes (ROWS-1, COLS-1).                                        *)
(***************************************************************************)
C3_WrapAroundCounted ==
    \A id \in GridIdSet : \A n \in WrapNeighbors(id[1], id[2]) :
        countNeighbors(currentCellState, id[1], id[2])
            = countNeighbors([currentCellState EXCEPT ![n] = 0], id[1], id[2])
                + currentCellState[n]

(***************************************************************************)
(* C4: the horizontal blinker (1,0),(1,1),(1,2) becomes the vertical       *)
(* blinker (0,1),(1,1),(2,1) after one evolve step and the vertical one    *)
(* becomes the horizontal one again, no other cell being alive.            *)
(***************************************************************************)
C4_BlinkerOscillates ==
    [][TickStep =>
        /\ currentCellState = AsGrid(BlinkerH) => currentCellState' = AsGrid(BlinkerV)
        /\ currentCellState = AsGrid(BlinkerV) => currentCellState' = AsGrid(BlinkerH)]_vars

(***************************************************************************)
(* C5 as stated: a tick adds exactly 1 to generation and performs exactly  *)
(* one evolve step, and while isProgressing is false generation does not   *)
(* change.                                                                 *)
(***************************************************************************)
C5_FrozenWhileStopped ==
    [][/\ generation' > generation =>
            /\ generation' = generation + 1
            /\ currentCellState' =
                    evolvePass(currentCellState, EmptyObject, Keys(currentCellState))
       /\ ~isProgressing => generation' = generation]_vars

(***************************************************************************)
(* C5 amended: a tick adds exactly 1 to generation and performs exactly    *)
(* one evolve step; while isProgressing is false generation is never       *)
(* incremented, it only stays or is reset to 0 (clearUniverse, randomize). *)
(***************************************************************************)
C5_TickAddsOneResetWhileStopped ==
    [][/\ generation' > generation =>
            /\ generation' = generation + 1
            /\ currentCellState' =
                    evolvePass(currentCellState, EmptyObject, Keys(currentCellState))
       /\ ~isProgressing => generation' = generation \/ generation' = 0]_vars

\* one start, one tick, a stop, and then a reset of the counter
C5_Witness ==
    /\ ~isProgressing
    /\ nextHandle = 2
    /\ display = <<1>>
    /\ generation = 0

(***************************************************************************)
(* C6: after a stop request no tick callback runs until the next start:    *)
(* while isProgressing is false no step is a tick (generation is not       *)
(* incremented, the generation display is not rewritten).                  *)
(***************************************************************************)
C6_NoTickAfterStop ==
    [][~isProgressing => ~TickStep /\ display' = display]_vars

\* stopped after a run in which a tick fired
C6_Witness ==
    /\ ~isProgressing
    /\ button = <<"Start">>
    /\ internalN = 1
    /\ generation = 1

(***************************************************************************)
(* C7: a keystroke whose text is not made up entirely of digits leaves     *)
(* progressionSpeed / chanceToBeLivingCell at its prior value (so each     *)
(* changes only to the value of an all-digit text), and neither is ever    *)
(* NaN.                                                                    *)
(***************************************************************************)
C7_NonDigitTextIgnored ==
    [][/\ progressionSpeed' # progressionSpeed =>
            \E value \in Texts : DigitsOnly(value) /\ progressionSpeed' = ToNumber(value)
       /\ chanceToBeLivingCell' # chanceToBeLivingCell =>
            \E value \in Texts : DigitsOnly(value) /\ chanceToBeLivingCell' = ToNumber(value)
       /\ ~progressionSpeed'.nan
       /\ ~chanceToBeLivingCell'.nan]_vars

(***************************************************************************)
(* C8: progressionSpeed is always a positive integer and                   *)
(* chanceToBeLivingCell an integer between 0 and 100.                      *)
(***************************************************************************)
C8_ConfigurationInRange ==
    /\ IsInteger(progressionSpeed) /\ progressionSpeed.num > 0
    /\ IsInteger(chanceToBeLivingCell) /\ chanceToBeLivingCell.num \in 0..100

(***************************************************************************)
(* C9: clearUniverse sets every cell value and the generation counter to 0 *)
(* without changing the set of coordinates, and clearing again changes     *)
(* nothing.                                                                *)
(***************************************************************************)
C9_ClearIsIdempotent ==
    [][Clear =>
        /\ AllDead(currentCellState')
        /\ generation' = 0
        /\ DOMAIN currentCellState' = DOMAIN currentCellState
        /\ clearUniverse(S') = S']_vars

\* cleared after two ticks
C9_Witness ==
    /\ generation = 0
    /\ display = <<2>>
    /\ AllDead(currentCellState)
    /\ \A l \in 1..Len(cells) : \A id \in DOMAIN cells[l] : cells[l][id] = WHITE

(***************************************************************************)
(* C10: when chanceToBeLivingCell is 0, randomize yields a grid in which   *)
(* every cell is dead and resets the generation counter to 0.              *)
(***************************************************************************)
C10_RandomizeAtZeroIsAllDead ==
    [][RandomizeStep /\ chanceToBeLivingCell = Num(0) =>
        AllDead(currentCellState') /\ generation' = 0]_vars

\* randomized at chance 0 while running, after a tick
C10_Witness ==
    /\ Len(cells) = 2
    /\ \A id \in GridIdSet : cells[2][id] = UNSET
    /\ chanceToBeLivingCell = Num(0)
    /\ isProgressing
    /\ display # <<>>
    /\ generation = 0
    /\ AllDead(currentCellState)

(***************************************************************************)
(* C11: currentCellState always has exactly the ids (r, c) with            *)
(* 0 <= r < ROWS and 0 <= c < COLS as its keys, and every value is 0 or 1. *)
(***************************************************************************)
C11_GridShape ==
    /\ DOMAIN currentCellState = GridIdSet
    /\ \A id \in DOMAIN currentCellState : currentCellState[id] \in {0, 1}

\* after a randomize and a tick
C11_Witness ==
    /\ Len(cells) = 2
    /\ generation = 1
    /\ display = <<1>>
    /\ isProgressing

(***************************************************************************)
(* C12: every next value of an evolve step is computed from the grid as it *)
(* was before the step (no neighbour count reads a next-generation value), *)
(* and the pass leaves nextCellState empty again.                          *)
(***************************************************************************)
C12_NextFromSnapshot ==
    [][TickStep =>
        /\ \A id \in DOMAIN currentCellState :
              currentCellState'[id] =
                  nextValue(currentCellState[id],
                            countNeighbors(currentCellState, id[1], id[2]))
        /\ nextCellState = EmptyObject
        /\ nextCellState' = EmptyObject]_vars

\* one tick after the 3 x 3 block: its centre, which had 8 live neighbours,
\* died, and the cell below the block was born
C12_Witness ==
    /\ generation = 1
    /\ currentCellState[CellId(1, 1)] = 0
    /\ currentCellState[CellId(0, 0)] = 1
    /\ currentCellState[CellId(3, 1)] = 1

\* the rule of evolve for a current value v, a count n and a next value w
RuleHolds(v, n, w) ==
    /\ v = 1 => (w = 0 <=> (n < 2 \/ n > 3))
    /\ v = 0 => (w = 1 <=> n = 3)
    /\ ~(v = 1 /\ (n < 2 \/ n > 3)) /\ ~(v = 0 /\ n = 3) => w = v

(***************************************************************************)
(* C13: whatever countNeighbors returns, a live cell gets 0 iff the count  *)
(* is < 2 or > 3, a dead cell gets 1 iff the count is exactly 3, and       *)
(* otherwise the next value is the current value.                          *)
(***************************************************************************)
C13_RuleOfEvolve ==
    [][TickStep =>
        \A id \in DOMAIN currentCellState :
            RuleHolds(currentCellState[id],
                      countNeighbors(currentCellState, id[1], id[2]),
                      currentCellState'[id])]_vars

\* one tick after the horizontal blinker: (0,1) was born with count 3, (1,0)
\* died with count 1, (1,1) lived on with count 2
C13_Witness ==
    /\ generation = 1
    /\ currentCellState[CellId(0, 1)] = 1
    /\ currentCellState[CellId(1, 0)] = 0
    /\ currentCellState[CellId(1, 1)] = 1
    /\ currentCellState[CellId(1, 2)] = 0

\* the grids with exactly one live cell, one per coordinate
SingleCellDraws == {{id} : id \in GridIdSet}

\* the page loaded with a draw that made exactly one cell alive
InitSingleCell ==
    \E speed \in InitialSpeeds, chance \in InitialChances, less \in SingleCellDraws :
        /\ DrawPossible(chance, less)
        /\ LET s == initializeUniverse(Loaded(speed, chance), less)
           IN  /\ generation = s.generation
               /\ isProgressing = s.isProgressing
               /\ internalN = s.internalN
               /\ chanceToBeLivingCell = s.chanceToBeLivingCell
               /\ progressionSpeed = s.progressionSpeed
               /\ currentCellState = s.currentCellState
               /\ nextCellState = s.nextCellState
               /\ cells = s.cells
               /\ display = s.display
               /\ button = s.button
               /\ timers = s.timers
               /\ nextHandle = s.nextHandle

SpecSingleCell == InitSingleCell /\ [][Next]_vars

LiveCells(obj) == {id \in DOMAIN obj : obj[id] # 0}

(***************************************************************************)
(* C14: when exactly one cell is alive, at any coordinate, one tick leaves *)
(* every cell dead and adds exactly one to generation.                     *)
(***************************************************************************)
C14_LoneCellDies ==
    [][TickStep /\ Cardinality(LiveCells(currentCellState)) = 1 =>
        /\ AllDead(currentCellState')
        /\ DOMAIN currentCellState' = GridIdSet
        /\ generation' = generation + 1]_vars

\* the first tick has run on a grid that started with one live cell
C14_Witness ==
    /\ generation = 1
    /\ display = <<1>>
    /\ Len(cells) = 1
    /\ AllDead(currentCellState)
    /\ \A id \in DOMAIN cells[1] : cells[1][id] = WHITE

\* a step of clearUniverse alone that changed something
ClearStep ==
    /\ generation' = 0
    /\ AllDead(currentCellState')
    /\ Len(cells') = Len(cells)

(***************************************************************************)
(* C15: a step that toggles start/stop or stores a keystroke's value       *)
(* changes no cell value and not the generation counter; only a tick,      *)
(* clearUniverse and randomize change them.                                *)
(***************************************************************************)
C15_ControlsLeaveGridAlone ==
    [][/\ (\/ isProgressing' # isProgressing
           \/ button' # button
           \/ progressionSpeed' # progressionSpeed
           \/ chanceToBeLivingCell' # chanceToBeLivingCell)
          => /\ currentCellState' = currentCellState
             /\ generation' = generation
       /\ (currentCellState' # currentCellState \/ generation' # generation)
          => TickStep \/ ClearStep \/ RandomizeStep]_vars

\* a live grid at generation 1 after a start, a tick, a stop and two
\* accepted keystrokes
C15_Witness ==
    /\ generation = 1
    /\ ~AllDead(currentCellState)
    /\ button = <<"Start">>
    /\ progressionSpeed = Num(0)
    /\ chanceToBeLivingCell = Num(100)

(***************************************************************************)
(* C16: the timer registered by a start has the value progressionSpeed had *)
(* at that start as its period, and a step taken while the animation runs  *)
(* (a keystroke in particular) leaves the registered timer as it is.       *)
(***************************************************************************)
C16_PeriodFixedAtStart ==
    [][/\ (~isProgressing /\ isProgressing')
          => timers' = {[id |-> internalN', delay |-> progressionSpeed]}
       /\ (isProgressing /\ isProgressing') => timers' = timers]_vars

\* the second start took the period 0 typed while the first timer ran, and
\* the text typed since then has not changed it
C16_Witness ==
    /\ isProgressing
    /\ nextHandle = 3
    /\ timers = {[id |-> 2, delay |-> Num(0)]}
    /\ progressionSpeed = NaN

(***************************************************************************)
(* C17: the document holds exactly one cell element per coordinate id, so  *)
(* a render pass paints each coordinate once, also after randomize.        *)
(***************************************************************************)
C17_OneElementPerCoordinate ==
    \A id \in GridIdSet :
        Cardinality({l \in 1..Len(cells) : id \in DOMAIN cells[l]}) = 1

(***************************************************************************)
(* C18: once the display has been written by a tick, it shows the current  *)
(* value of generation after every operation.                              *)
(***************************************************************************)
C18_DisplayShowsGeneration ==
    display # <<>> => display = <<generation>>

(***************************************************************************)
(* C19: an interval timer is registered exactly when isProgressing is      *)
(* true, and never more than one; it is the one whose handle internalN     *)
(* holds.                                                                  *)
(***************************************************************************)
C19_TimerIffProgressing ==
    /\ isProgressing <=> timers # {}
    /\ Cardinality(timers) <= 1
    /\ \A t \in timers : t.id = internalN

\* running for the second time, after a stop in between, and a tick of the
\* second timer has fired
C19_Witness ==
    /\ isProgressing
    /\ internalN = 2
    /\ nextHandle = 3
    /\ Cardinality(timers) = 1
    /\ generation >= 1

\* values of the percent input field: every whole percentage
Percents == {Num(p) : p \in 1..100}

\* the page loaded with any whole percentage in the percent input field
InitPercent ==
    \E speed \in InitialSpeeds, chance \in Percents, less \in Draws :
        /\ DrawPossible(chance, less)
        /\ LET s == initializeUniverse(Loaded(speed, chance), less)
           IN  /\ generation = s.generation
               /\ isProgressing = s.isProgressing
               /\ internalN = s.internalN
               /\ chanceToBeLivingCell = s.chanceToBeLivingCell
               /\ progressionSpeed = s.progressionSpeed
               /\ currentCellState = s.currentCellState
               /\ nextCellState = s.nextCellState
               /\ cells = s.cells
               /\ display = s.display
               /\ button = s.button
               /\ timers = s.timers
               /\ nextHandle = s.nextHandle

NextPercent ==
    \/ Clear
    \/ Randomize

SpecPercent == InitPercent /\ [][NextPercent]_vars

(***************************************************************************)
(* C20: with chanceToBeLivingCell a whole number p, a randomize can make   *)
(* each cell alive and can make it dead when 1 <= p <= 99, and makes every *)
(* cell alive when p = 100.                                                *)
(***************************************************************************)
C20_BothOutcomesBelow100 ==
    Len(cells) < MaxLayers =>
        /\ \A p \in 1..99 : chanceToBeLivingCell = Num(p) =>
              \A id \in GridIdSet :
                  /\ ENABLED (Randomize /\ currentCellState'[id] = 1)
                  /\ ENABLED (Randomize /\ currentCellState'[id] = 0)
        /\ chanceToBeLivingCell = Num(100) =>
              ~ ENABLED (Randomize /\ ~ \A id \in GridIdSet : currentCellState'[id] = 1)

====
